---- MODULE Spec2Model ----
(***************************************************************************)
(* The associative memory store of core/memory_system.py: the SQLite      *)
(* tables memories and memory_relations, the optional ChromaDB            *)
(* collection, the in-memory short_term_cache, and the operations         *)
(* record_conversation, record_event, retrieve_related_memories and       *)
(* consolidate_memories.                                                  *)
(*                                                                         *)
(* Text is a sequence of characters; a character is a one-symbol string.  *)
(* CJK characters are written by code point ("u7231" is U+7231).          *)
(* Times are whole seconds, the resolution of SQLite's CURRENT_TIMESTAMP. *)
(***************************************************************************)
EXTENDS Integers, Sequences, FiniteSets

(***************************************************************************)
(* Bounds of the model.                                                    *)
(***************************************************************************)
\* operations (calls of the store, seconds passing) in one behaviour
MaxSteps == 3

(***************************************************************************)
(* Program constants.                                                      *)
(***************************************************************************)
cache_size == 20
BaseImportance == 50
LongText == 500
ShortText == 50
LengthBonus == 10
EmotionScale == 20
KeywordBonus == 15
MinImportance == 1
MaxImportance == 100
ReinforceAccesses == 10
ReinforceBelow == 90
ReinforceStep == 5
DecayDays == 30
DecayAbove == 20
DecayStep == 2
CacheImportance == 70
MaxKeywords == 10
MaxTags == 5
QueryKeywords == 3
RelationLimit == 3
VectorMinQueryLen == 2
VectorMaxResults == 10
SecondsPerDay == 86400

\* SQL NULL in a DATETIME column (times themselves are >= 0)
NULL == -1

(***************************************************************************)
(* Characters and text.                                                    *)
(***************************************************************************)
Space == " "
Comma == ","
AsciiLower == {"a", "b", "c", "d", "e", "m", "o", "r", "y"}
AsciiUpper == {"A", "B"}
Digits == {"0", "1", "2", "3", "4", "5", "6", "7", "8", "9"}
\* U+7231, U+4F60 (a stopword), U+597D
Cjk == {"u7231", "u4f60", "u597d"}

\* char.isalnum() or U+4E00 <= char <= U+9FFF
IsWordChar(c) == c \in AsciiLower \cup AsciiUpper \cup Digits \cup Cjk

stopwords ==
    { <<c>> : c \in {"u7684", "u4e86", "u548c", "u662f", "u5728", "u6211", "u4f60",
                      "u4ed6", "u5979", "u5b83", "u8fd9", "u90a3", "u6709", "u5c31",
                      "u90fd", "u4e5f", "u8fd8", "u4f46", "u800c", "u5417"} }

important_keywords ==
    { <<"u7231">>, <<"u559c", "u6b22">>, <<"u91cd", "u8981">>, <<"u6c38", "u8fdc">>,
      <<"u627f", "u8bfa">>, <<"u751f", "u65e5">>, <<"u7eaa", "u5ff5", "u65e5">> }

\* needle in haystack (Python's substring test)
Contains(haystack, needle) ==
    \E i \in 0..(Len(haystack) - Len(needle)) :
        \A j \in 1..Len(needle) : haystack[i + j] = needle[j]

\* list(dict.fromkeys(words)): first occurrences, in order
RECURSIVE Dedup(_)
Dedup(words) ==
    IF words = <<>> THEN <<>>
    ELSE LET init == Dedup(SubSeq(words, 1, Len(words) - 1))
             w == words[Len(words)]
         IN  IF \E i \in 1..Len(init) : init[i] = w THEN init ELSE Append(init, w)

Prefix(s, n) == SubSeq(s, 1, IF Len(s) < n THEN Len(s) ELSE n)

KeepWord(w) == w # <<>> /\ Len(w) > 1 /\ w \notin stopwords

\* the scan loop of _extract_keywords: words collected so far, current_word
RECURSIVE ScanWords(_, _, _, _)
ScanWords(text, i, words, current_word) ==
    IF i > Len(text)
    THEN IF KeepWord(current_word) THEN Append(words, current_word) ELSE words
    ELSE IF IsWordChar(text[i])
         THEN ScanWords(text, i + 1, words, Append(current_word, text[i]))
         ELSE ScanWords(text, i + 1,
                        IF KeepWord(current_word) THEN Append(words, current_word)
                        ELSE words,
                        <<>>)

_extract_keywords(text) == Prefix(Dedup(ScanWords(text, 1, <<>>, <<>>)), MaxKeywords)

\* ','.join(words)
RECURSIVE Join(_)
Join(words) ==
    IF words = <<>> THEN <<>>
    ELSE IF Len(words) = 1 THEN words[1]
    ELSE words[1] \o <<Comma>> \o Join(Tail(words))

\* a message: its leading text followed by `pad` blanks
Msg(text, pad) == [text |-> text, pad |-> pad]
MsgLen(m) == Len(m.text) + m.pad
\* the words and the significant substrings of a message lie in its text:
\* trailing blanks neither extend a word nor contain a keyword
MsgChars(m) == IF m.pad = 0 THEN m.text ELSE Append(m.text, Space)

(***************************************************************************)
(* SQL values and operators.                                               *)
(***************************************************************************)
\* a TEXT column value, or NULL
SqlText(s) == [isnull |-> FALSE, text |-> s]
SqlNullText == [isnull |-> TRUE, text |-> <<>>]

\* LIKE folds ASCII case
Fold(c) == IF c = "A" THEN "a" ELSE IF c = "B" THEN "b" ELSE c
FoldText(s) == [i \in 1..Len(s) |-> Fold(s[i])]

\* tags LIKE '%kw%' (kw holds word characters only, so no wildcard of its own);
\* NULL LIKE ... is NULL, which WHERE treats as false
TagsEqual(tags, kw) == ~tags.isnull /\ FoldText(tags.text) = FoldText(kw)
TagsLike(tags, kw) == ~tags.isnull /\ Contains(FoldText(tags.text), FoldText(kw))

DigitChars == <<"0", "1", "2", "3", "4", "5", "6", "7", "8", "9">>
RECURSIVE DecStr(_)
DecStr(n) == IF n < 10 THEN <<DigitChars[n + 1]>>
             ELSE Append(DecStr(n \div 10), DigitChars[(n % 10) + 1])
DigitValue(c) == CHOOSE d \in 0..9 : DigitChars[d + 1] = c
RECURSIVE ParseDec(_)
ParseDec(s) == IF Len(s) = 1 THEN DigitValue(s[1])
               ELSE 10 * ParseDec(SubSeq(s, 1, Len(s) - 1)) + DigitValue(s[Len(s)])

\* INTEGER column = TEXT parameter: the text takes NUMERIC affinity, so it is
\* compared as a number when it is a well-formed integer, and otherwise stays
\* TEXT, which no integer equals
IntColumnEqualsText(n, s) ==
    /\ s # <<>>
    /\ \A i \in 1..Len(s) : s[i] \in Digits
    /\ ParseDec(s) = n

\* ids=[f"memory_{memory_id}"]
VectorId(memory_id) == <<"m", "e", "m", "o", "r", "y", "_">> \o DecStr(memory_id)

\* ORDER BY k1 DESC, k2 DESC over the rows `ids`, key[id] = <<k1, k2>>: every
\* order SQL allows (rows with equal keys come in any order)
KeyLess(a, b) == a[1] < b[1] \/ (a[1] = b[1] /\ a[2] < b[2])
RECURSIVE OrderByDesc(_, _)
OrderByDesc(ids, key) ==
    IF ids = {} THEN {<<>>}
    ELSE UNION { { <<x>> \o s : s \in OrderByDesc(ids \ {x}, key) } :
                 x \in { y \in ids : \A z \in ids : ~KeyLess(key[y], key[z]) } }

\* LIMIT n (a negative n is no limit)
Limit(s, n) == IF n < 0 THEN s ELSE Prefix(s, n)

SeqToSet(s) == { s[i] : i \in 1..Len(s) }

(***************************************************************************)
(* State.                                                                  *)
(***************************************************************************)
VARIABLES
    memories,           \* table memories: id -> row
    memory_relations,   \* table memory_relations: set of rows
    sqlite_sequence,    \* AUTOINCREMENT's record of the largest id ever issued
    vector_collection,  \* the ChromaDB collection, when there is one
    short_term_cache,   \* self.short_term_cache
    now,                \* the clock, in seconds
    used,               \* operations so far (bounds the exploration)
    issued,             \* every id the store has handed out, in order
    last,               \* the last operation: its inputs and what it returned
    threads,            \* each thread's place in the call it is running, its locals
    journal             \* the open write transaction: its connection's thread and
                        \* the tables as that connection sees them until it commits

vars == <<memories, memory_relations, sqlite_sequence, vector_collection,
          short_term_cache, now, used, issued, last, threads, journal>>

Ids == DOMAIN memories

\* the columns of one row of memories (_create_tables)
Row(memory_type, content, metadata, importance, timestamp, tags) ==
    [memory_type |-> memory_type, content |-> content, metadata |-> metadata,
     importance |-> importance, timestamp |-> timestamp, accessed_count |-> 0,
     last_accessed |-> NULL, expiration_date |-> NULL, tags |-> tags]

ByImportanceThenTime(table) ==
    [id \in DOMAIN table |-> <<table[id].importance, table[id].timestamp>>]
ByTime(table) == [id \in DOMAIN table |-> <<table[id].timestamp, 0>>]

(***************************************************************************)
(* The statements of the operations, as operators on the tables.           *)
(***************************************************************************)
NeutralHappiness == 50
Abs(x) == IF x < 0 THEN 0 - x ELSE x
Min(a, b) == IF a < b THEN a ELSE b
Max(a, b) == IF a > b THEN a ELSE b

\* context.get('emotion', {}): no emotion, or one with a happiness level
NoEmotion == [has_emotion |-> FALSE, happiness |-> NeutralHappiness]
Happiness(h) == [has_emotion |-> TRUE, happiness |-> h]

_calculate_conversation_importance(user_message, ai_response, context) ==
    LET total_length == MsgLen(user_message) + MsgLen(ai_response)
        by_length == IF total_length > LongText THEN BaseImportance + LengthBonus
                     ELSE IF total_length < ShortText THEN BaseImportance - LengthBonus
                     ELSE BaseImportance
        \* int(abs(happiness - 50) / 50.0 * 20)
        by_emotion == IF context.has_emotion
                      THEN (Abs(context.happiness - NeutralHappiness) * EmotionScale)
                               \div NeutralHappiness
                      ELSE 0
        by_keyword == IF \E k \in important_keywords : Contains(MsgChars(user_message), k)
                      THEN KeywordBonus ELSE 0
    IN  Max(MinImportance, Min(MaxImportance, by_length + by_emotion + by_keyword))

\* event_data.get('importance', 50)
NoImportance == [has_importance |-> FALSE, importance |-> BaseImportance]
WithImportance(i) == [has_importance |-> TRUE, importance |-> i]
EventImportance(event_data) ==
    IF event_data.has_importance THEN event_data.importance ELSE BaseImportance

\* id INTEGER PRIMARY KEY AUTOINCREMENT: one more than the largest id ever issued
NextRowIdReusing(table, seq) ==
    IF DOMAIN table = {} THEN 1
    ELSE 1 + CHOOSE m \in DOMAIN table : \A x \in DOMAIN table : x <= m
NextRowId(table, seq) == seq + 1

Insert(table, id, row) == [x \in DOMAIN table \cup {id} |-> IF x = id THEN row ELSE table[x]]

\* WHERE tags LIKE ? OR tags LIKE ? OR ... over keywords[:3]
MatchesFirst(row, keywords) == keywords # <<>> /\ TagsLike(row.tags, keywords[1])
MatchesAny(row, keywords) ==
    \E i \in 1..Min(Len(keywords), QueryKeywords) : TagsLike(row.tags, keywords[i])

\* _add_to_cache
_add_to_cache(cache, memory) ==
    LET grown == <<memory>> \o cache
    IN  IF Len(grown) > cache_size THEN SubSeq(grown, 1, cache_size) ELSE grown

CacheEntry(id, row) == [id |-> id, importance |-> row.importance]

\* load_existing_memories: the results of
\* SELECT ... WHERE importance >= 70 ORDER BY timestamp DESC LIMIT cache_size,
\* each appended to the cache
ImportantRows(table) == { id \in DOMAIN table : table[id].importance >= CacheImportance }
LoadedRows(table) ==
    { [i \in 1..Len(rows) |-> CacheEntry(rows[i], table[rows[i]])] :
        rows \in { Limit(o, cache_size) : o \in OrderByDesc(ImportantRows(table), ByTime(table)) } }
LoadedCaches(table, cache) == { cache \o rows : rows \in LoadedRows(table) }

\* _establish_relations: the possible results of
\* SELECT id ... WHERE id != ? AND (tags LIKE ...) ORDER BY importance DESC,
\* timestamp DESC LIMIT 3
RelatedIdsWithSelf(table, new_memory_id, keywords) ==
    IF keywords = <<>> THEN {<<>>}
    ELSE { Limit(o, RelationLimit) :
             o \in OrderByDesc({ id \in DOMAIN table : MatchesAny(table[id], keywords) },
                               ByImportanceThenTime(table)) }
RelatedIds(table, new_memory_id, keywords) ==
    IF keywords = <<>> THEN {<<>>}
    ELSE { Limit(o, RelationLimit) :
             o \in OrderByDesc({ id \in DOMAIN table :
                                   id # new_memory_id /\ MatchesAny(table[id], keywords) },
                               ByImportanceThenTime(table)) }
Relation(memory_id, related_id) ==
    [memory_id |-> memory_id, related_id |-> related_id,
     relation_type |-> "semantic", strength |-> 1]

\* the record a vector id stands for: the <id> of 'memory_<id>'
HitMemoryId(h) == ParseDec(SubSeq(h, Len(VectorId(0)), Len(h)))

\* the vector ids `ids` from the newest record to the oldest
RECURSIVE NewestFirst(_)
NewestFirst(ids) ==
    IF ids = {} THEN <<>>
    ELSE LET newest == CHOOSE x \in ids :
                           \A y \in ids : HitMemoryId(y) <= HitMemoryId(x)
         IN  <<newest>> \o NewestFirst(ids \ {newest})
Reverse(s) == [i \in 1..Len(s) |-> s[Len(s) + 1 - i]]

\* collection.query(..., n_results=n): the ids of the n nearest documents,
\* nearest first, or of all documents when the collection holds fewer. Which
\* documents are nearest is the embedding's choice: the rankings drawn here
\* are the newest documents first and the oldest documents first
Rankings(ids, n) ==
    { Prefix(NewestFirst(ids), n), Prefix(Reverse(NewestFirst(ids)), n) }

\* retrieve_related_memories, vector step: the rows of
\* SELECT ... WHERE id IN (<the ids the collection returned>) ORDER BY importance DESC
HydratedRows(table, hits) ==
    OrderByDesc({ id \in DOMAIN table : \E h \in hits : IntColumnEqualsText(id, h) },
                [id \in DOMAIN table |-> <<table[id].importance, 0>>])

\* retrieve_related_memories, keyword step: LIMIT limit - len(memories)
KeywordLimitNone(limit, collected) == 0 - 1
KeywordLimit(limit, collected) == limit - collected
\* ... ORDER BY importance DESC, timestamp DESC
KeywordOrderByTime(table) == ByTime(table)
KeywordOrder(table) == ByImportanceThenTime(table)
KeywordRows(table, keywords, n) ==
    { Limit(o, n) :
        o \in OrderByDesc({ id \in DOMAIN table : MatchesAny(table[id], keywords) },
                          KeywordOrder(table)) }

\* for row in cursor.fetchall(): if not any(m['id'] == row[0] for m in memories)
RECURSIVE AppendNew(_, _)
AppendNew(collected, rows) ==
    IF rows = <<>> THEN collected
    ELSE AppendNew(IF rows[1] \in SeqToSet(collected) THEN collected
                   ELSE Append(collected, rows[1]),
                   Tail(rows))

\* UPDATE memories SET accessed_count = accessed_count + 1,
\* last_accessed = CURRENT_TIMESTAMP WHERE id = ?
TouchCountOnly(table, id, t) ==
    IF id \in DOMAIN table
    THEN [table EXCEPT ![id] = [@ EXCEPT !.accessed_count = @ + 1]]
    ELSE table
Touch(table, id, t) ==
    IF id \in DOMAIN table
    THEN [table EXCEPT ![id] = [@ EXCEPT !.accessed_count = @ + 1, !.last_accessed = t]]
    ELSE table

\* for memory in memories: UPDATE ...
TouchLast(table, returned, t) ==
    IF returned = <<>> THEN table ELSE Touch(table, returned[Len(returned)], t)
RECURSIVE TouchAll(_, _, _)
TouchAll(table, returned, t) ==
    IF returned = <<>> THEN table
    ELSE TouchAll(Touch(table, returned[1], t), Tail(returned), t)

\* DELETE FROM memories WHERE expiration_date IS NOT NULL
\*   AND expiration_date < CURRENT_TIMESTAMP
IsExpiredReversed(row, t) == row.expiration_date # NULL /\ row.expiration_date > t
IsExpired(row, t) == row.expiration_date # NULL /\ row.expiration_date < t
DeleteExpired(table, t) ==
    [id \in { x \in DOMAIN table : ~IsExpired(table[x], t) } |-> table[id]]

\* UPDATE ... SET importance = CASE WHEN importance + 5 > 100 THEN 100
\*   ELSE importance + 5 END WHERE accessed_count >= 10 AND importance < 90
ReinforcedEvery(row) == row.accessed_count >= ReinforceAccesses
Reinforced(row) ==
    row.accessed_count >= ReinforceAccesses /\ row.importance < ReinforceBelow
Reinforce(table) ==
    [id \in DOMAIN table |->
        IF Reinforced(table[id])
        THEN [table[id] EXCEPT !.importance =
                 IF @ + ReinforceStep > MaxImportance THEN MaxImportance
                 ELSE @ + ReinforceStep]
        ELSE table[id]]

\* julianday('now') - julianday(last_accessed) > 30: 'now' carries the fraction
\* of the current second (subsec: that fraction is not zero), last_accessed
\* was written by CURRENT_TIMESTAMP and is a whole second
OlderThanDecayDays(last_accessed, t, subsec) ==
    \/ t - last_accessed > DecayDays * SecondsPerDay
    \/ subsec /\ t - last_accessed = DecayDays * SecondsPerDay

\* UPDATE ... SET importance = CASE WHEN importance - 2 < 1 THEN 1
\*   ELSE importance - 2 END WHERE last_accessed IS NOT NULL
\*   AND julianday('now') - julianday(last_accessed) > 30 AND importance > 20
DecayedAlsoUnaccessed(row, t, subsec) ==
    /\ OlderThanDecayDays(IF row.last_accessed = NULL THEN row.timestamp
                          ELSE row.last_accessed, t, subsec)
    /\ row.importance > DecayAbove
Decayed(row, t, subsec) ==
    /\ row.last_accessed # NULL
    /\ OlderThanDecayDays(row.last_accessed, t, subsec)
    /\ row.importance > DecayAbove
Decay(table, t, subsec) ==
    [id \in DOMAIN table |->
        IF Decayed(table[id], t, subsec)
        THEN [table[id] EXCEPT !.importance =
                 IF @ - DecayStep < MinImportance THEN MinImportance ELSE @ - DecayStep]
        ELSE table[id]]

(***************************************************************************)
(* The database found at startup.  memories.db outlives the process        *)
(* (_init_database creates it only when it is missing), so construction    *)
(* starts from what earlier runs left: ids 1..3 have been issued, and the  *)
(* table holds StoredRows, or no row when all of them were removed since.  *)
(* StoredRows fit the schema of _create_tables and the documented ranges.  *)
(* The clock starts thirty days to the second after the stored rows were   *)
(* written and rows 1 and 2 last retrieved, in the second in which row 3   *)
(* expires; row 3 was never retrieved.                                     *)
(***************************************************************************)
Start == DecayDays * SecondsPerDay

StoredContent == [user |-> Msg(<<>>, 0), ai |-> Msg(<<>>, 0), emotion |-> NoEmotion]
StoredMetadata == [length |-> 0, emotion_at_time |-> NoEmotion]
StoredRows ==
    [id \in {1, 2, 3} |->
        IF id = 1
        THEN [Row("conversation", StoredContent, StoredMetadata, 50, 0,
                  SqlText(<<"a", "b">>))
                EXCEPT !.accessed_count = 10, !.last_accessed = 0]
        ELSE IF id = 2
        THEN [Row("conversation", StoredContent, StoredMetadata, 98, 0,
                  SqlText(<<"a", "b", ",", "e", "e">>))
                EXCEPT !.accessed_count = 10, !.last_accessed = 0,
                       !.expiration_date = Start + SecondsPerDay]
        ELSE [Row("conversation", StoredContent, StoredMetadata, 80, 0,
                  SqlText(<<"c", "d">>))
                EXCEPT !.expiration_date = Start]]

\* the largest id the stored database has issued
InitialSequence == Cardinality(DOMAIN StoredRows)

(***************************************************************************)
(* Inputs.                                                                 *)
(***************************************************************************)
\* <<user_message, ai_response, context>>
Conversations ==
    { <<Msg(<<"a", "b">>, 0), Msg(<<>>, 0), NoEmotion>>,
      <<Msg(<<"c", "d", " ", "a", "b">>, 0), Msg(<<"a", "b">>, 0), NoEmotion>>,
      <<Msg(<<"u7231", "a", "b">>, 501), Msg(<<>>, 0), Happiness(100)>> }
\* <<event_type, event_data>>
Events == { <<"holiday", WithImportance(150)>> }
\* <<interaction_type, data>>
Interactions == { <<"receive", NoImportance>> }
Queries ==
    { Msg(<<>>, 3),
      Msg(<<"c", "d">>, 1),
      Msg(<<"A", "B", " ", "c", "d">>, 0) }
\* the limits the callers pass (consciousness.py)
Limits == {2, 3}

(***************************************************************************)
(* What the last operation was given and what it returned.                 *)
(***************************************************************************)
Did(op, arg, ret, result) ==
    [op |-> op, arg |-> arg, ret |-> ret, result |-> result,
     deleted |-> {}, reinforced |-> {}, decayed |-> {},
     vector_queried |-> FALSE, store_queried |-> FALSE, hits |-> <<>>,
     thread |-> 0, failed |-> "", steps |-> {}, partial |-> FALSE]

\* the threads that call the store; 0 stands for no thread
Threads == {1, 2}

\* a thread outside any call
Idle ==
    [pc |-> "idle", arg |-> <<>>, memory_id |-> NULL, keywords |-> <<>>,
     returned |-> <<>>, rows |-> <<>>, appended |-> 0, steps |-> {}]

\* no write transaction is open
NoJournal ==
    [holder |-> 0, memories |-> <<>>, memory_relations |-> {}, sqlite_sequence |-> 0]

Init ==
    /\ \E present \in {{}, DOMAIN StoredRows} :
         memories = [id \in present |-> StoredRows[id]]
    /\ memory_relations = {}
    /\ sqlite_sequence = InitialSequence
    /\ \E available \in BOOLEAN :
         vector_collection =
            [available |-> available,
             ids |-> IF available THEN { VectorId(id) : id \in DOMAIN memories } ELSE {}]
    /\ short_term_cache \in LoadedCaches(memories, <<>>)
    /\ now = Start
    /\ used = 0
    /\ issued = [i \in 1..InitialSequence |-> i]
    /\ last = Did("__init__", <<>>, NULL, <<>>)
    /\ threads = [t \in Threads |-> Idle]
    /\ journal = NoJournal

(***************************************************************************)
(* Operations.                                                             *)
(***************************************************************************)
record_conversation(user_message, ai_response, context) ==
    /\ used < MaxSteps
    /\ LET importance ==
               _calculate_conversation_importance(user_message, ai_response, context)
           keywords ==
               _extract_keywords(MsgChars(user_message) \o <<Space>> \o MsgChars(ai_response))
           memory_content ==
               [user |-> user_message, ai |-> ai_response, emotion |-> context]
           metadata ==
               [length |-> MsgLen(user_message) + MsgLen(ai_response),
                emotion_at_time |-> context]
           memory_id == NextRowId(memories, sqlite_sequence)
           row == Row("conversation", memory_content, metadata, importance, now,
                      SqlText(Join(Prefix(keywords, MaxTags))))
           inserted == Insert(memories, memory_id, row)
       IN  /\ memories' = inserted
           /\ sqlite_sequence' = Max(sqlite_sequence, memory_id)
           \* _add_to_vector_db: a failure of add is logged and swallowed
           /\ \E indexed \in (IF vector_collection.available THEN BOOLEAN ELSE {FALSE}) :
                vector_collection' =
                    IF indexed
                    THEN [vector_collection EXCEPT !.ids = @ \cup {VectorId(memory_id)}]
                    ELSE vector_collection
           /\ short_term_cache' = _add_to_cache(short_term_cache, CacheEntry(memory_id, row))
           /\ \E related_ids \in RelatedIds(inserted, memory_id, keywords) :
                memory_relations' = memory_relations \cup
                    { Relation(memory_id, related_ids[i]) : i \in 1..Len(related_ids) }
           /\ issued' = Append(issued, memory_id)
           /\ last' = Did("record_conversation",
                          [user_message |-> user_message, ai_response |-> ai_response,
                           context |-> context],
                          memory_id, <<>>)
    /\ used' = used + 1
    /\ UNCHANGED <<threads, journal>>
    /\ UNCHANGED now

record_event(event_type, event_data) ==
    /\ used < MaxSteps
    /\ LET importance == EventImportance(event_data)
           memory_id == NextRowId(memories, sqlite_sequence)
           row == Row("event", event_data, [event_type |-> event_type], importance,
                      now, SqlNullText)
       IN  /\ memories' = Insert(memories, memory_id, row)
           /\ sqlite_sequence' = Max(sqlite_sequence, memory_id)
           /\ issued' = Append(issued, memory_id)
           /\ last' = Did("record_event",
                          [event_type |-> event_type, event_data |-> event_data],
                          memory_id, <<>>)
    /\ used' = used + 1
    /\ UNCHANGED <<threads, journal>>
    /\ UNCHANGED <<memory_relations, vector_collection, short_term_cache, now>>

\* f'interaction_{interaction_type}'
InteractionEvent(interaction_type) ==
    IF interaction_type = "receive" THEN "interaction_receive" ELSE "interaction_send"

record_interaction(interaction_type, data) ==
    record_event(InteractionEvent(interaction_type), data)

\* the vector step is taken: a collection exists and len(query) > 2
VectorQueried(query) ==
    vector_collection.available /\ MsgLen(query) > VectorMinQueryLen

\* results['ids'][0] of the vector step: no id when the step is skipped or the
\* query raises, else the n_results nearest ids, nearest first
VectorStep(query, limit) ==
    IF VectorQueried(query)
    THEN {<<>>} \cup Rankings(vector_collection.ids, Min(limit, VectorMaxResults))
    ELSE {<<>>}

retrieve_related_memories(query, limit) ==
    /\ used < MaxSteps
    /\ \E hits \in VectorStep(query, limit) :
       \E collected \in (IF hits # <<>> THEN HydratedRows(memories, SeqToSet(hits))
                         ELSE {<<>>}) :
         LET keywords == _extract_keywords(MsgChars(query))
             searched == Len(collected) < limit /\ keywords # <<>>
         IN  \E rows \in (IF searched
                          THEN KeywordRows(memories, keywords,
                                           KeywordLimit(limit, Len(collected)))
                          ELSE {<<>>}) :
               LET returned == AppendNew(collected, rows)
               IN  /\ memories' = TouchAll(memories, returned, now)
                   /\ last' = [Did("retrieve_related_memories",
                                   [query |-> query, limit |-> limit], NULL, returned)
                                 EXCEPT !.vector_queried = VectorQueried(query),
                                        !.store_queried = hits # <<>> \/ searched,
                                        !.hits = hits]
    /\ used' = used + 1
    /\ UNCHANGED <<threads, journal>>
    /\ UNCHANGED <<memory_relations, sqlite_sequence, vector_collection,
                   short_term_cache, now, issued>>

consolidate_memories(subsec) ==
    /\ used < MaxSteps
    /\ LET kept == DeleteExpired(memories, now)
           reinforced == Reinforce(kept)
           decayed == Decay(reinforced, now, subsec)
       IN  /\ memories' = decayed
           /\ short_term_cache' \in LoadedCaches(decayed, short_term_cache)
           /\ last' = [Did("consolidate_memories", [subsec |-> subsec], NULL, <<>>)
                         EXCEPT !.deleted = DOMAIN memories \ DOMAIN kept,
                                !.reinforced = { id \in DOMAIN kept : Reinforced(kept[id]) },
                                !.decayed = { id \in DOMAIN reinforced :
                                                Decayed(reinforced[id], now, subsec) }]
    /\ used' = used + 1
    /\ UNCHANGED <<threads, journal>>
    /\ UNCHANGED <<memory_relations, sqlite_sequence, vector_collection, now, issued>>

\* a second passes
Tick ==
    /\ used < MaxSteps
    /\ now' = now + 1
    /\ last' = Did("tick", <<>>, NULL, <<>>)
    /\ used' = used + 1
    /\ UNCHANGED <<threads, journal>>
    /\ UNCHANGED <<memories, memory_relations, sqlite_sequence, vector_collection,
                   short_term_cache, issued>>

RecordConversation == \E c \in Conversations : record_conversation(c[1], c[2], c[3])
RecordEvent == \E e \in Events : record_event(e[1], e[2])
RecordInteraction == \E e \in Interactions : record_interaction(e[1], e[2])
Retrieve == \E query \in Queries, limit \in Limits : retrieve_related_memories(query, limit)
Consolidate == \E subsec \in BOOLEAN : consolidate_memories(subsec)

Next ==
    \/ RecordConversation
    \/ RecordEvent
    \/ RecordInteraction
    \/ Retrieve
    \/ Consolidate
    \/ Tick

Spec == Init /\ [][Next]_vars

(***************************************************************************)
(* The operations statement by statement, called by several threads.       *)
(* Each thread has its own connection (_get_db_connection).  SQLite lets   *)
(* one connection write at a time: a connection's first INSERT, UPDATE or  *)
(* DELETE opens its transaction and takes the write lock, which it keeps   *)
(* until it commits.  Until then the other connections read the committed  *)
(* tables, and a write of theirs waits for the lock and raises 'database   *)
(* is locked' when the wait outlasts the connection's timeout.  A thread   *)
(* that waits simply takes no step.                                        *)
(***************************************************************************)
\* calls in one behaviour
MaxCalls == 2

ThreadConversations == Conversations
ThreadQueries == Queries

\* another connection holds the write lock
Locked(t) == journal.holder \notin {0, t}

\* a write of thread t's connection: its first one starts a transaction from
\* the committed tables, a later one goes on in the transaction it left open
Begin(t) ==
    IF journal.holder = t THEN journal
    ELSE [holder |-> t, memories |-> memories, memory_relations |-> memory_relations,
          sqlite_sequence |-> sqlite_sequence]

\* the rows a SELECT of thread t's connection reads: the committed ones, or
\* those of the transaction the connection has open
Read(t) == Begin(t).memories

\* retrieve_related_memories: the vector step and the keyword SELECT
retrieve_select(t, query, limit) ==
    /\ used < MaxCalls
    /\ threads[t].pc = "idle"
    /\ \E hits \in VectorStep(query, limit) :
       \E collected \in (IF hits # <<>> THEN HydratedRows(Read(t), SeqToSet(hits))
                         ELSE {<<>>}) :
         LET keywords == _extract_keywords(MsgChars(query))
             searched == Len(collected) < limit /\ keywords # <<>>
             arg == [query |-> query, limit |-> limit]
         IN  \E rows \in (IF searched
                          THEN KeywordRows(Read(t), keywords,
                                           KeywordLimit(limit, Len(collected)))
                          ELSE {<<>>}) :
               LET returned == AppendNew(collected, rows)
               IN  IF returned = <<>>
                   \* nothing to update: conn.commit() ends the transaction the
                   \* connection may have open; return []
                   THEN /\ last' = [Did("retrieve_related_memories", arg, NULL, <<>>)
                                      EXCEPT !.thread = t]
                        /\ memories' = Begin(t).memories
                        /\ memory_relations' = Begin(t).memory_relations
                        /\ sqlite_sequence' = Begin(t).sqlite_sequence
                        /\ journal' = IF journal.holder = t THEN NoJournal ELSE journal
                        /\ UNCHANGED threads
                   ELSE /\ threads' = [threads EXCEPT ![t] =
                                          [Idle EXCEPT !.pc = "retrieve_update",
                                                       !.arg = arg,
                                                       !.returned = returned]]
                        /\ UNCHANGED <<last, memories, memory_relations,
                                       sqlite_sequence, journal>>
    /\ used' = used + 1
    /\ UNCHANGED <<vector_collection, short_term_cache, now, issued>>

\* ... the UPDATEs of the access statistics, one for each memory collected
retrieve_update(t) ==
    /\ threads[t].pc = "retrieve_update"
    /\ \/ /\ ~Locked(t)
          /\ journal' = [Begin(t) EXCEPT
                            !.memories = TouchAll(Begin(t).memories, threads[t].returned,
                                                  now)]
          /\ threads' = [threads EXCEPT ![t].pc = "retrieve_commit"]
          /\ UNCHANGED last
       \* database is locked: except Exception ... return []
       \/ /\ Locked(t)
          /\ threads' = [threads EXCEPT ![t] = Idle]
          /\ last' = [Did("retrieve_related_memories", threads[t].arg, NULL, <<>>)
                        EXCEPT !.thread = t, !.failed = "update"]
          /\ UNCHANGED journal
    /\ UNCHANGED <<memories, memory_relations, sqlite_sequence, vector_collection,
                   short_term_cache, now, used, issued>>

\* ... conn.commit(); return memories
retrieve_commit(t) ==
    /\ threads[t].pc = "retrieve_commit"
    /\ memories' = journal.memories
    /\ memory_relations' = journal.memory_relations
    /\ sqlite_sequence' = journal.sqlite_sequence
    /\ journal' = NoJournal
    /\ threads' = [threads EXCEPT ![t] = Idle]
    /\ last' = [Did("retrieve_related_memories", threads[t].arg, NULL,
                    threads[t].returned)
                  EXCEPT !.thread = t]
    /\ UNCHANGED <<vector_collection, short_term_cache, now, used, issued>>

\* consolidate_memories: the DELETE and the two UPDATEs
consolidate_write(t, subsec) ==
    /\ used < MaxCalls
    /\ threads[t].pc = "idle"
    /\ \/ /\ ~Locked(t)
          /\ journal' = [Begin(t) EXCEPT
                            !.memories = Decay(Reinforce(DeleteExpired(Begin(t).memories,
                                                                          now)),
                                               now, subsec)]
          /\ threads' = [threads EXCEPT ![t] =
                            [Idle EXCEPT !.pc = "consolidate_commit",
                                         !.arg = [subsec |-> subsec],
                                         !.steps = {"delete", "reinforce", "decay"}]]
          /\ UNCHANGED last
       \* database is locked at the DELETE: the except clause ends the run
       \/ /\ Locked(t)
          /\ last' = [Did("consolidate_memories", [subsec |-> subsec], NULL, <<>>)
                        EXCEPT !.thread = t, !.failed = "delete"]
          /\ UNCHANGED <<threads, journal>>
    /\ used' = used + 1
    /\ UNCHANGED <<memories, memory_relations, sqlite_sequence, vector_collection,
                   short_term_cache, now, issued>>

\* ... conn.commit()
consolidate_commit(t) ==
    /\ threads[t].pc = "consolidate_commit"
    /\ memories' = journal.memories
    /\ memory_relations' = journal.memory_relations
    /\ sqlite_sequence' = journal.sqlite_sequence
    /\ journal' = NoJournal
    /\ threads' = [threads EXCEPT ![t].pc = "load_select"]
    /\ UNCHANGED <<vector_collection, short_term_cache, now, used, issued, last>>

\* ... load_existing_memories: the SELECT and fetchall
load_select(t) ==
    /\ threads[t].pc = "load_select"
    /\ \E rows \in LoadedRows(Read(t)) :
         threads' = [threads EXCEPT ![t].pc = "load_append", ![t].rows = rows]
    /\ UNCHANGED <<memories, memory_relations, sqlite_sequence, vector_collection,
                   short_term_cache, now, used, issued, last, journal>>

\* ... one turn of `for row in rows: self.short_term_cache.append(memory)`,
\* or the end of the loop and of the run
load_append(t) ==
    /\ threads[t].pc = "load_append"
    /\ IF threads[t].rows # <<>>
       THEN /\ short_term_cache' = Append(short_term_cache, threads[t].rows[1])
            /\ threads' = [threads EXCEPT ![t].rows = Tail(@),
                                          ![t].appended = @ + 1]
            /\ UNCHANGED last
       ELSE /\ threads' = [threads EXCEPT ![t] = Idle]
            /\ last' = [Did("consolidate_memories", threads[t].arg, NULL, <<>>)
                          EXCEPT !.thread = t,
                                 !.steps = threads[t].steps \cup {"reload"}]
            /\ UNCHANGED short_term_cache
    /\ UNCHANGED <<memories, memory_relations, sqlite_sequence, vector_collection,
                   now, used, issued, journal>>

\* record_conversation: the INSERT and cursor.lastrowid
conversation_insert(t, user_message, ai_response, context) ==
    /\ used < MaxCalls
    /\ threads[t].pc = "idle"
    /\ LET arg == [user_message |-> user_message, ai_response |-> ai_response,
                   context |-> context]
       IN
       \/ /\ ~Locked(t)
          /\ LET importance ==
                     _calculate_conversation_importance(user_message, ai_response,
                                                        context)
                 keywords ==
                     _extract_keywords(MsgChars(user_message) \o <<Space>>
                                           \o MsgChars(ai_response))
                 memory_content ==
                     [user |-> user_message, ai |-> ai_response, emotion |-> context]
                 metadata ==
                     [length |-> MsgLen(user_message) + MsgLen(ai_response),
                      emotion_at_time |-> context]
                 memory_id == NextRowId(Begin(t).memories, Begin(t).sqlite_sequence)
                 row == Row("conversation", memory_content, metadata, importance, now,
                            SqlText(Join(Prefix(keywords, MaxTags))))
             IN  /\ journal' = [Begin(t) EXCEPT
                                   !.memories = Insert(@, memory_id, row),
                                   !.sqlite_sequence = Max(@, memory_id)]
                 /\ issued' = Append(issued, memory_id)
                 /\ threads' = [threads EXCEPT ![t] =
                                   [Idle EXCEPT !.pc = "conversation_index",
                                                !.arg = arg,
                                                !.memory_id = memory_id,
                                                !.keywords = keywords]]
          /\ UNCHANGED last
       \* database is locked: except Exception ... return None
       \/ /\ Locked(t)
          /\ last' = [Did("record_conversation", arg, NULL, <<>>)
                        EXCEPT !.thread = t, !.failed = "insert"]
          /\ UNCHANGED <<threads, journal, issued>>
    /\ used' = used + 1
    /\ UNCHANGED <<memories, memory_relations, sqlite_sequence, vector_collection,
                   short_term_cache, now>>

\* ... _add_to_vector_db and _add_to_cache, the INSERT not yet committed
conversation_index(t) ==
    /\ threads[t].pc = "conversation_index"
    /\ LET memory_id == threads[t].memory_id
       IN  /\ \E indexed \in (IF vector_collection.available THEN BOOLEAN ELSE {FALSE}) :
                vector_collection' =
                    IF indexed
                    THEN [vector_collection EXCEPT !.ids = @ \cup {VectorId(memory_id)}]
                    ELSE vector_collection
           /\ short_term_cache' =
                 _add_to_cache(short_term_cache,
                               CacheEntry(memory_id, journal.memories[memory_id]))
    /\ threads' = [threads EXCEPT ![t].pc = "conversation_relate"]
    /\ UNCHANGED <<memories, memory_relations, sqlite_sequence, now, used, issued,
                   last, journal>>

\* ... _establish_relations, whose commit also commits the INSERT (with no
\* keyword it returns at once and record_conversation's own commit does)
conversation_relate(t) ==
    /\ threads[t].pc = "conversation_relate"
    /\ LET memory_id == threads[t].memory_id
       IN  /\ \E related_ids \in RelatedIds(journal.memories, memory_id,
                                            threads[t].keywords) :
                memory_relations' = journal.memory_relations \cup
                    { Relation(memory_id, related_ids[i]) : i \in 1..Len(related_ids) }
           /\ memories' = journal.memories
           /\ sqlite_sequence' = journal.sqlite_sequence
           /\ journal' = NoJournal
           /\ last' = [Did("record_conversation", threads[t].arg, memory_id, <<>>)
                         EXCEPT !.thread = t]
    /\ threads' = [threads EXCEPT ![t] = Idle]
    /\ UNCHANGED <<vector_collection, short_term_cache, now, used, issued>>

\* a thread reads the cache (len(self.short_term_cache)); `partial`: while a
\* reload has appended some of its rows and not yet all
cache_read(t) ==
    /\ used < MaxCalls
    /\ threads[t].pc = "idle"
    /\ last' = [Did("get_stats", <<>>, Len(short_term_cache), <<>>)
                  EXCEPT !.thread = t,
                         !.partial = \E u \in Threads :
                                        /\ threads[u].pc = "load_append"
                                        /\ threads[u].appended > 0
                                        /\ threads[u].rows # <<>>]
    /\ used' = used + 1
    /\ UNCHANGED <<memories, memory_relations, sqlite_sequence, vector_collection,
                   short_term_cache, now, issued, threads, journal>>

RetrieveSelect ==
    \E t \in Threads, query \in ThreadQueries, limit \in Limits :
        retrieve_select(t, query, limit)
RetrieveUpdate == \E t \in Threads : retrieve_update(t)
RetrieveCommit == \E t \in Threads : retrieve_commit(t)
ConsolidateWrite == \E t \in Threads, subsec \in BOOLEAN : consolidate_write(t, subsec)
ConsolidateCommit == \E t \in Threads : consolidate_commit(t)
LoadSelect == \E t \in Threads : load_select(t)
LoadAppend == \E t \in Threads : load_append(t)
ConversationInsert ==
    \E t \in Threads, c \in ThreadConversations : conversation_insert(t, c[1], c[2], c[3])
ConversationIndex == \E t \in Threads : conversation_index(t)
ConversationRelate == \E t \in Threads : conversation_relate(t)
CacheRead == \E t \in Threads : cache_read(t)

ThreadNext ==
    \/ RetrieveSelect
    \/ RetrieveUpdate
    \/ RetrieveCommit
    \/ ConsolidateWrite
    \/ ConsolidateCommit
    \/ LoadSelect
    \/ LoadAppend
    \/ ConversationInsert
    \/ ConversationIndex
    \/ ConversationRelate
    \/ CacheRead

ThreadSpec == Init /\ [][ThreadNext]_vars

(***************************************************************************)
(* Record creation and retrieval by several threads when the commit of a   *)
(* creation can raise (the disk is full, the file is busy beyond the       *)
(* timeout): the handlers log and return None, with no rollback, so the    *)
(* connection keeps its transaction open.                                  *)
(***************************************************************************)
\* record_conversation: conn.commit() raises in _establish_relations, whose
\* handler logs it, and again at the end: except Exception ... return None
conversation_commit_fails(t) ==
    /\ threads[t].pc = "conversation_relate"
    /\ LET memory_id == threads[t].memory_id
       IN  /\ \E related_ids \in RelatedIds(journal.memories, memory_id,
                                            threads[t].keywords) :
                journal' = [journal EXCEPT !.memory_relations = @ \cup
                    { Relation(memory_id, related_ids[i]) : i \in 1..Len(related_ids) }]
           /\ last' = [Did("record_conversation", threads[t].arg, NULL, <<>>)
                         EXCEPT !.thread = t, !.failed = "commit"]
    /\ threads' = [threads EXCEPT ![t] = Idle]
    /\ UNCHANGED <<memories, memory_relations, sqlite_sequence, vector_collection,
                   short_term_cache, now, used, issued>>

\* record_event: the INSERT and cursor.lastrowid
event_insert(t, event_type, event_data) ==
    /\ used < MaxCalls
    /\ threads[t].pc = "idle"
    /\ LET arg == [event_type |-> event_type, event_data |-> event_data]
       IN
       \/ /\ ~Locked(t)
          /\ LET memory_id == NextRowId(Begin(t).memories, Begin(t).sqlite_sequence)
                 row == Row("event", event_data, [event_type |-> event_type],
                            EventImportance(event_data), now, SqlNullText)
             IN  /\ journal' = [Begin(t) EXCEPT
                                   !.memories = Insert(@, memory_id, row),
                                   !.sqlite_sequence = Max(@, memory_id)]
                 /\ issued' = Append(issued, memory_id)
                 /\ threads' = [threads EXCEPT ![t] =
                                   [Idle EXCEPT !.pc = "event_commit",
                                                !.arg = arg,
                                                !.memory_id = memory_id]]
          /\ UNCHANGED last
       \* database is locked: except Exception ... return None
       \/ /\ Locked(t)
          /\ last' = [Did("record_event", arg, NULL, <<>>)
                        EXCEPT !.thread = t, !.failed = "insert"]
          /\ UNCHANGED <<threads, journal, issued>>
    /\ used' = used + 1
    /\ UNCHANGED <<memories, memory_relations, sqlite_sequence, vector_collection,
                   short_term_cache, now>>

\* ... conn.commit(); return memory_id
event_commit(t) ==
    /\ threads[t].pc = "event_commit"
    /\ memories' = journal.memories
    /\ memory_relations' = journal.memory_relations
    /\ sqlite_sequence' = journal.sqlite_sequence
    /\ journal' = NoJournal
    /\ last' = [Did("record_event", threads[t].arg, threads[t].memory_id, <<>>)
                  EXCEPT !.thread = t]
    /\ threads' = [threads EXCEPT ![t] = Idle]
    /\ UNCHANGED <<vector_collection, short_term_cache, now, used, issued>>

\* ... conn.commit() raises: except Exception ... return None
event_commit_fails(t) ==
    /\ threads[t].pc = "event_commit"
    /\ last' = [Did("record_event", threads[t].arg, NULL, <<>>)
                  EXCEPT !.thread = t, !.failed = "commit"]
    /\ threads' = [threads EXCEPT ![t] = Idle]
    /\ UNCHANGED <<memories, memory_relations, sqlite_sequence, vector_collection,
                   short_term_cache, now, used, issued, journal>>

ConversationCommitFails == \E t \in Threads : conversation_commit_fails(t)
EventInsert == \E t \in Threads, e \in Events : event_insert(t, e[1], e[2])
EventCommit == \E t \in Threads : event_commit(t)
EventCommitFails == \E t \in Threads : event_commit_fails(t)

FaultNext ==
    \/ ConversationInsert
    \/ ConversationIndex
    \/ ConversationRelate
    \/ ConversationCommitFails
    \/ EventInsert
    \/ EventCommit
    \/ EventCommitFails
    \/ RetrieveSelect
    \/ RetrieveUpdate
    \/ RetrieveCommit

FaultSpec == Init /\ [][FaultNext]_vars

(***************************************************************************)
(* A database that earlier runs left with more important conversations     *)
(* than half the cache holds, written one a second; on it, the startup     *)
(* load followed by recordings and consolidations.                         *)
(***************************************************************************)
ManyImportant == 11
ManyRows ==
    [id \in 1..ManyImportant |->
        Row("conversation", StoredContent, StoredMetadata, 75, id,
            SqlText(<<"a", "b">>))]

CacheInit ==
    /\ memories = ManyRows
    /\ memory_relations = {}
    /\ sqlite_sequence = ManyImportant
    /\ \E available \in BOOLEAN :
         vector_collection =
            [available |-> available,
             ids |-> IF available THEN { VectorId(id) : id \in DOMAIN memories } ELSE {}]
    /\ short_term_cache \in LoadedCaches(memories, <<>>)
    /\ now = Start
    /\ used = 0
    /\ issued = [i \in 1..ManyImportant |-> i]
    /\ last = Did("__init__", <<>>, NULL, <<>>)
    /\ threads = [t \in Threads |-> Idle]
    /\ journal = NoJournal

CacheNext ==
    \/ RecordConversation
    \/ Consolidate

CacheSpec == CacheInit /\ [][CacheNext]_vars

(***************************************************************************)
(* The operations that only read, among the recordings and retrievals of   *)
(* the callers.                                                            *)
(***************************************************************************)
\* memory_type LIKE 'interaction_%': the kinds record_interaction names
LikeInteraction(memory_type) ==
    memory_type \in { InteractionEvent(i) : i \in {"receive", "send"} }

\* the limit the caller passes (consciousness.py)
RecentLimits == {5}

\* SELECT ... ORDER BY timestamp DESC LIMIT ?
get_recent_memories_counted(limit) ==
    /\ used < MaxSteps
    /\ \E rows \in { Limit(o, limit) : o \in OrderByDesc(Ids, ByTime(memories)) } :
         /\ last' = Did("get_recent_memories", [limit |-> limit], NULL, rows)
         /\ memories' = TouchAll(memories, rows, now)
    /\ used' = used + 1
    /\ UNCHANGED <<memory_relations, sqlite_sequence, vector_collection,
                   short_term_cache, now, issued, threads, journal>>
get_recent_memories(limit) ==
    /\ used < MaxSteps
    /\ \E rows \in { Limit(o, limit) : o \in OrderByDesc(Ids, ByTime(memories)) } :
         last' = Did("get_recent_memories", [limit |-> limit], NULL, rows)
    /\ used' = used + 1
    /\ UNCHANGED <<memories, memory_relations, sqlite_sequence, vector_collection,
                   short_term_cache, now, issued, threads, journal>>

\* SELECT timestamp ... WHERE memory_type LIKE 'interaction_%'
\* ORDER BY timestamp DESC LIMIT 1; None when fetchone() gives no row
get_last_interaction_time ==
    /\ used < MaxSteps
    /\ LET found == { id \in Ids : LikeInteraction(memories[id].memory_type) }
       IN  \E rows \in { Limit(o, 1) : o \in OrderByDesc(found, ByTime(memories)) } :
             last' = Did("get_last_interaction_time", <<>>,
                         IF rows = <<>> THEN NULL ELSE memories[rows[1]].timestamp,
                         <<>>)
    /\ used' = used + 1
    /\ UNCHANGED <<memories, memory_relations, sqlite_sequence, vector_collection,
                   short_term_cache, now, issued, threads, journal>>

GetRecentMemories == \E limit \in RecentLimits : get_recent_memories(limit)
GetLastInteractionTime == get_last_interaction_time

ReadNext ==
    \/ RecordConversation
    \/ RecordInteraction
    \/ Retrieve
    \/ GetRecentMemories
    \/ GetLastInteractionTime
    \/ Tick

ReadSpec == Init /\ [][ReadNext]_vars

(***************************************************************************)
(* The memory maintenance thread of the consciousness core (thread 1),     *)
(* which start_background_tasks starts on the method                       *)
(* ConsciousnessCore._memory_maintenance_loop, beside the calls of the     *)
(* message handlers.  The core stays active.                               *)
(***************************************************************************)
MaintenanceSleep == 3600
\* hours the clock is followed for
MaxSleeps == 2

\* while self.is_active: try:
maintenance_test(t) ==
    /\ threads[t].pc = "idle"
    /\ threads' = [threads EXCEPT ![t].pc = "maintenance_sleep"]
    /\ UNCHANGED <<memories, memory_relations, sqlite_sequence, vector_collection,
                   short_term_cache, now, used, issued, last, journal>>

\* ... time.sleep(3600); the clock is read up to MaxSleeps hours from Start
maintenance_sleep(t) ==
    /\ threads[t].pc = "maintenance_sleep"
    /\ now' = Min(now + MaintenanceSleep, Start + MaxSleeps * MaintenanceSleep)
    /\ threads' = [threads EXCEPT ![t].pc = "idle"]
    /\ UNCHANGED <<memories, memory_relations, sqlite_sequence, vector_collection,
                   short_term_cache, used, issued, last, journal>>

MaintenanceLoop == maintenance_test(1) \/ maintenance_sleep(1)

LoopNext ==
    \/ MaintenanceLoop
    \/ RecordInteraction
    \/ Retrieve

\* the scheduler lets the maintenance thread run
LoopSpec == Init /\ [][LoopNext]_vars /\ WF_vars(MaintenanceLoop)

(***************************************************************************)
(* Consolidation runs over a store that holds one event, recorded with an  *)
(* importance of the documented range (kept in its content), retrieved     *)
(* ten times or never, last when it was written or never.                  *)
(***************************************************************************)
RecordedImportances ==
    {1, 15, 16, 19, 20, 21, 22, 23, 50, 84, 85, 88, 89, 90, 91, 94, 95, 99, 100}

ConsolidationInit ==
    /\ \E importance \in RecordedImportances, accessed \in BOOLEAN :
         memories =
            [id \in {1} |->
                [Row("event", WithImportance(importance), [event_type |-> "holiday"],
                     importance, 0, SqlNullText)
                   EXCEPT !.accessed_count = IF accessed THEN ReinforceAccesses ELSE 0,
                          !.last_accessed = IF accessed THEN 0 ELSE NULL]]
    /\ memory_relations = {}
    /\ sqlite_sequence = 1
    /\ vector_collection = [available |-> FALSE, ids |-> {}]
    /\ short_term_cache \in LoadedCaches(memories, <<>>)
    /\ now = Start
    /\ used = 0
    /\ issued = <<1>>
    /\ last = Did("__init__", <<>>, NULL, <<>>)
    /\ threads = [t \in Threads |-> Idle]
    /\ journal = NoJournal

ConsolidationNext ==
    \/ Consolidate
    \/ Tick

ConsolidationSpec == ConsolidationInit /\ [][ConsolidationNext]_vars

(***************************************************************************)
(* Greetings: conversations and queries in Chinese, whose words are runs   *)
(* of ideographs with no blank between them.                               *)
(***************************************************************************)
Greeting == <<"u4f60", "u597d">>
GreetConversations ==
    { <<Msg(Greeting, 0), Msg(<<>>, 0), NoEmotion>>,
      <<Msg(Greeting, 0), Msg(<<"a", "b">>, 0), Happiness(100)>>,
      <<Msg(<<"u4f60", " ", "u597d">>, 0), Msg(<<>>, 0), NoEmotion>> }
GreetQueries ==
    { Msg(Greeting, 0),
      Msg(Greeting, 1),
      Msg(<<"u4f60">>, 0),
      Msg(<<"u597d", "u597d">>, 0) }

RecordGreeting == \E c \in GreetConversations : record_conversation(c[1], c[2], c[3])
RetrieveGreeting ==
    \E query \in GreetQueries, limit \in Limits : retrieve_related_memories(query, limit)

GreetNext ==
    \/ RecordGreeting
    \/ RetrieveGreeting

GreetSpec == Init /\ [][GreetNext]_vars

(***************************************************************************)
(* The scorer alone, applied once to a conversation drawn from texts with  *)
(* and without a significant term, of lengths around 50 and 500, under     *)
(* happiness levels of the dial's range 0..100.                            *)
(***************************************************************************)
ScoredTexts ==
    { <<"a", "b">>, <<"u7231", "a">>, <<"u751f", "u65e5">>, <<"u65e5", "u751f">> }
ScoredPads == {0, 46, 47, 48, 497, 498}
ScoredUserMessages == { Msg(text, pad) : text \in ScoredTexts, pad \in ScoredPads }
ScoredResponses == { Msg(<<>>, 0), Msg(<<"u7231">>, 0), Msg(<<"a", "b">>, 0) }
ScoredContexts ==
    {NoEmotion} \cup { Happiness(h) : h \in {0, 25, 47, 48, 50, 52, 53, 100} }

ScorerInit ==
    /\ memories = <<>>
    /\ memory_relations = {}
    /\ sqlite_sequence = 0
    /\ vector_collection = [available |-> FALSE, ids |-> {}]
    /\ short_term_cache = <<>>
    /\ now = Start
    /\ used = 0
    /\ issued = <<>>
    /\ last = Did("__init__", <<>>, NULL, <<>>)
    /\ threads = [t \in Threads |-> Idle]
    /\ journal = NoJournal

Score(user_message, ai_response, context) ==
    /\ last.op = "__init__"
    /\ last' = Did("_calculate_conversation_importance",
                   [user_message |-> user_message, ai_response |-> ai_response,
                    context |-> context],
                   _calculate_conversation_importance(user_message, ai_response,
                                                      context),
                   <<>>)
    /\ UNCHANGED <<memories, memory_relations, sqlite_sequence, vector_collection,
                   short_term_cache, now, used, issued, threads, journal>>

ScorerNext ==
    \E user_message \in ScoredUserMessages, ai_response \in ScoredResponses,
       context \in ScoredContexts : Score(user_message, ai_response, context)

ScorerSpec == ScorerInit /\ [][ScorerNext]_vars

(***************************************************************************)
(* Properties.                                                             *)
(***************************************************************************)
Creations == {"record_conversation", "record_event"}
Consolidated == last'.op = "consolidate_memories"
Retrieved == last.op = "retrieve_related_memories"
ThirtyDays == 30 * 86400

\* C1: no id is handed out twice, also after the row that held it was deleted:
\* the ids the store has issued, in the order of issue, are pairwise different
IdsNeverReused ==
    \A i, j \in 1..Len(issued) : i # j => issued[i] # issued[j]

\* a creation that follows the deletion of the row with the largest id
IdsNeverReusedWitness ==
    /\ last.op \in Creations
    /\ last.ret = InitialSequence + 1
    /\ 1 \in Ids
    /\ InitialSequence \notin Ids

\* C2: right after a creation the store holds one row with the returned id,
\* whose kind, content and tags are the inputs, with importance in [1,100],
\* access count 0 and no last access
CreatedRecordEqualsInputs ==
    (last.op \in Creations /\ last.ret # NULL) =>
        /\ last.ret \in Ids
        /\ memories[last.ret].importance \in 1..100
        /\ memories[last.ret].accessed_count = 0
        /\ memories[last.ret].last_accessed = NULL
        /\ last.op = "record_conversation" =>
              /\ memories[last.ret].memory_type = "conversation"
              /\ memories[last.ret].content.user = last.arg.user_message
              /\ memories[last.ret].content.ai = last.arg.ai_response
              /\ memories[last.ret].metadata.emotion_at_time = last.arg.context
              /\ memories[last.ret].tags =
                    SqlText(Join(Prefix(_extract_keywords(
                        MsgChars(last.arg.user_message) \o <<Space>>
                            \o MsgChars(last.arg.ai_response)), 5)))
        /\ last.op = "record_event" =>
              /\ memories[last.ret].memory_type = last.arg.event_type
              /\ memories[last.ret].content = last.arg.event_data

\* C3: every stored row has importance in [1,100]
ImportanceInRange ==
    \A id \in Ids : memories[id].importance \in 1..100

\* C4: retrieval returns no row whose expiration_date is in the past
RetrievalSkipsExpired ==
    Retrieved =>
        \A i \in 1..Len(last.result) :
            LET row == memories[last.result[i]]
            IN  ~(row.expiration_date # NULL /\ row.expiration_date < now)

\* C5: a consolidation run removes every row whose expiration_date is set and
\* in the past, and no row whose expiration_date is null or in the future
ConsolidationDeletesExpired ==
    [][Consolidated =>
          \A id \in DOMAIN memories :
              LET e == memories[id].expiration_date
              IN  /\ (e # NULL /\ e < now) => id \notin DOMAIN memories'
                  /\ (e = NULL \/ e > now) => id \in DOMAIN memories']_vars

\* a run that removed a row and kept one expiring later and one never expiring
ConsolidationDeletesExpiredWitness ==
    /\ last.op = "consolidate_memories"
    /\ last.deleted # {}
    /\ \E id \in Ids : memories[id].expiration_date > now
    /\ \E id \in Ids : memories[id].expiration_date = NULL

\* C6 as claimed: after a run, exactly the surviving rows that had
\* accessed_count >= 10 and importance < 90 have importance min(100, old + 5),
\* and no other row was raised
ReinforcementAsClaimed ==
    [][Consolidated =>
          \A id \in DOMAIN memories \cap DOMAIN memories' :
              LET old == memories[id]
              IN  IF old.accessed_count >= 10 /\ old.importance < 90
                  THEN memories'[id].importance =
                           (IF old.importance + 5 > 100 THEN 100 ELSE old.importance + 5)
                  ELSE memories'[id].importance <= old.importance]_vars

\* C6 amended: the rows that had accessed_count >= 10 and importance < 90 are
\* raised by 5 (capped at 100) and then pass the decay step of the same run:
\* they end at min(100, old + 5), or 2 lower when last accessed more than
\* thirty days ago; no other surviving row is raised
ReinforcementThenDecay ==
    [][Consolidated =>
          \A id \in DOMAIN memories \cap DOMAIN memories' :
              LET old == memories[id]
                  raised == IF old.importance + 5 > 100 THEN 100 ELSE old.importance + 5
                  age == now - old.last_accessed
                  stale == /\ old.last_accessed # NULL
                           /\ (age > ThirtyDays \/ (last'.arg.subsec /\ age = ThirtyDays))
              IN  IF old.accessed_count >= 10 /\ old.importance < 90
                  THEN memories'[id].importance =
                           (IF stale /\ raised > 20 THEN raised - 2 ELSE raised)
                  ELSE memories'[id].importance <= old.importance]_vars

\* a run that both reinforced and decayed one row
ReinforcementThenDecayWitness ==
    /\ last.op = "consolidate_memories"
    /\ \E id \in last.reinforced \cap last.decayed : id \in Ids

\* C7 as claimed: a row with importance 98 and accessed_count 10 has
\* importance 100 after a run
Reinforce98AsClaimed ==
    [][Consolidated =>
          \A id \in DOMAIN memories \cap DOMAIN memories' :
              (memories[id].importance = 98 /\ memories[id].accessed_count = 10)
                  => memories'[id].importance = 100]_vars

\* C7 amended: a row with importance 98 and accessed_count 10 is not
\* reinforced: after a run its importance is 98, or 96 when it was last
\* accessed more than thirty days ago
Reinforce98Unchanged ==
    [][Consolidated =>
          \A id \in DOMAIN memories \cap DOMAIN memories' :
              (memories[id].importance = 98 /\ memories[id].accessed_count = 10)
                  => LET age == now - memories[id].last_accessed
                     IN  memories'[id].importance =
                            (IF /\ memories[id].last_accessed # NULL
                                /\ (age > ThirtyDays
                                      \/ (last'.arg.subsec /\ age = ThirtyDays))
                             THEN 96 ELSE 98)]_vars

\* a run after which such a row still has importance 98
Reinforce98UnchangedWitness ==
    /\ last.op = "consolidate_memories"
    /\ \E id \in Ids :
          /\ memories[id].importance = 98
          /\ memories[id].accessed_count = 10
          /\ id \notin last.reinforced \cup last.decayed

\* C8: a run lowers by 2 (not below 1) exactly the rows whose last_accessed is
\* set and more than thirty days before now and whose importance, when the
\* decay step executes (after reinforcement), is above 20; every other row,
\* and every row never accessed, keeps the importance it had at that step
DecayExactly ==
    [][Consolidated =>
          \A id \in DOMAIN memories \cap DOMAIN memories' :
              LET old == memories[id]
                  at_decay == IF old.accessed_count >= 10 /\ old.importance < 90
                              THEN old.importance + 5 ELSE old.importance
                  age == now - old.last_accessed
                  decays == /\ old.last_accessed # NULL
                            /\ (age > ThirtyDays \/ (last'.arg.subsec /\ age = ThirtyDays))
                            /\ at_decay > 20
              IN  /\ decays => memories'[id].importance =
                                   (IF at_decay - 2 < 1 THEN 1 ELSE at_decay - 2)
                  /\ ~decays => memories'[id].importance = at_decay]_vars

\* a run that decayed one row and left alone an old row that was never accessed
DecayExactlyWitness ==
    /\ last.op = "consolidate_memories"
    /\ last.decayed # {}
    /\ \E id \in Ids :
          /\ memories[id].last_accessed = NULL
          /\ now - memories[id].timestamp >= ThirtyDays
          /\ memories[id].importance > 20

\* C9: without a vector collection, retrieval returns the rows whose tags
\* match one of the first three keywords of the query, ordered by importance
\* descending and then by timestamp descending, cut to the limit
KeywordRetrievalOrdered ==
    (Retrieved /\ ~vector_collection.available) =>
        LET keywords == _extract_keywords(MsgChars(last.arg.query))
            matching == { id \in Ids :
                            \E k \in 1..Len(keywords) :
                                k <= 3 /\ TagsLike(memories[id].tags, keywords[k]) }
            res == last.result
            Before(a, b) ==
                \/ memories[a].importance > memories[b].importance
                \/ /\ memories[a].importance = memories[b].importance
                   /\ memories[a].timestamp > memories[b].timestamp
        IN  /\ \A i \in 1..Len(res) : res[i] \in matching
            /\ \A i, j \in 1..Len(res) : i < j => res[i] # res[j] /\ ~Before(res[j], res[i])
            /\ Len(res) = (IF Cardinality(matching) < last.arg.limit
                           THEN Cardinality(matching) ELSE last.arg.limit)
            /\ \A id \in matching : \A i \in 1..Len(res) :
                   Before(id, res[i]) => \E j \in 1..Len(res) : res[j] = id

\* retrieve(query, 2) returned [A, B] with A of importance 80 and B of 40
KeywordRetrievalOrderedWitness ==
    /\ Retrieved
    /\ ~vector_collection.available
    /\ last.arg.limit = 2
    /\ Len(last.result) = 2
    /\ memories[last.result[1]].importance = 80
    /\ memories[last.result[2]].importance = 40

\* C10: the returned sequence holds no id twice and at most limit elements
RetrievalDistinctAndBounded ==
    Retrieved =>
        /\ Len(last.result) <= last.arg.limit
        /\ \A i, j \in 1..Len(last.result) : i # j => last.result[i] # last.result[j]

\* a retrieval that queried the vector collection and filled the limit
RetrievalDistinctAndBoundedWitness ==
    /\ Retrieved
    /\ last.vector_queried
    /\ Len(last.result) = last.arg.limit

\* C11: when the vector collection returned hits, the result starts with the
\* stored records of those hits, in the order the collection ranked them (cut
\* to the limit), and the keyword hits follow
SemanticHitsFirst ==
    (Retrieved /\ last.hits # <<>>) =>
        LET ranked == [i \in 1..Len(last.hits) |-> HitMemoryId(last.hits[i])]
            stored == { i \in 1..Len(ranked) : ranked[i] \in Ids }
            n == Min(Cardinality(stored), last.arg.limit)
        IN  /\ Len(last.result) >= n
            /\ \A k \in 1..n :
                   \E i \in stored :
                       /\ Cardinality({ j \in stored : j <= i }) = k
                       /\ last.result[k] = ranked[i]

\* thread t's batch returns in this step: its commit
BatchReturns(t) == threads[t].pc = "retrieve_commit" /\ threads'[t].pc = "idle"

\* C12: whatever the interleaving of the threads' calls, a step raises a
\* record's accessed_count by one for each retrieval batch that returns the
\* record in that step, and by nothing otherwise; the batch returns exactly
\* the records it counted
AccessCountedOncePerBatch ==
    [][/\ \A id \in DOMAIN memories \cap DOMAIN memories' :
             memories'[id].accessed_count =
                 memories[id].accessed_count +
                 Cardinality({ t \in Threads :
                                 /\ BatchReturns(t)
                                 /\ id \in SeqToSet(threads[t].returned) })
       /\ \A t \in Threads :
             BatchReturns(t) =>
                 /\ last'.op = "retrieve_related_memories"
                 /\ last'.result = threads[t].returned
                 /\ \A i, j \in 1..Len(last'.result) :
                        i # j => last'.result[i] # last'.result[j]]_vars

\* a batch has returned a record that another thread's batch, which selected
\* it before that commit, has still to count
AccessCountedOncePerBatchWitness ==
    /\ Retrieved
    /\ last.failed = ""
    /\ \E u \in Threads \ {last.thread} :
          /\ threads[u].pc = "retrieve_update"
          /\ \E i \in 1..Len(last.result) :
                last.result[i] \in SeqToSet(threads[u].returned)

\* C13: a retrieval at time t raises the accessed_count of each record it
\* returns by one and sets its last_accessed to t; touching the record once
\* more at the same t leaves accessed_count two above what it was and
\* last_accessed still t
TouchTwiceAtSameTime ==
    [][last'.op = "retrieve_related_memories" =>
          \A i \in 1..Len(last'.result) :
              LET id == last'.result[i]
                  once == memories'[id]
                  twice == Touch(memories', id, now')[id]
              IN  /\ once.accessed_count = memories[id].accessed_count + 1
                  /\ once.last_accessed = now
                  /\ twice.accessed_count = memories[id].accessed_count + 2
                  /\ twice.last_accessed = now]_vars

\* a record returned by two retrievals in the same second, later than its
\* previous access: the stored count went up by two
TouchTwiceAtSameTimeWitness ==
    /\ Retrieved
    /\ now > Start
    /\ \E i \in 1..Len(last.result) :
          LET id == last.result[i]
          IN  /\ id \in DOMAIN StoredRows
              /\ memories[id].accessed_count = StoredRows[id].accessed_count + 2
              /\ memories[id].last_accessed = now

\* a query of blanks only, or of no character at all
IsBlank(query) == \A i \in 1..Len(query.text) : query.text[i] = Space

\* C14: a retrieval with an empty or blank query returns the empty sequence,
\* reads neither the table nor the vector collection, and changes no access
\* statistics
BlankQueryReadsNothing ==
    [][(last'.op = "retrieve_related_memories" /\ IsBlank(last'.arg.query)) =>
          /\ last'.result = <<>>
          /\ ~last'.vector_queried
          /\ ~last'.store_queried
          /\ memories' = memories]_vars

\* the tags a conversation is stored with
TagsOf(arg) ==
    Prefix(_extract_keywords(MsgChars(arg.user_message) \o <<Space>>
                                 \o MsgChars(arg.ai_response)), 5)

\* the records of `table` whose tags match (SQL LIKE) one of the first three of `tags`
Matching(table, tags) ==
    { id \in DOMAIN table :
        \E k \in 1..Len(tags) : k <= 3 /\ TagsLike(table[id].tags, tags[k]) }

\* C15: creating conversation X adds at most 3 relations, all from X, of kind
\* 'semantic' and strength 1.0, to records that existed before X and whose
\* tags match one of X's first three tags: the best of them by importance
\* descending, then timestamp descending; no other relation is added or lost
RelationsToBestMatches ==
    [][last'.op = "record_conversation" =>
          LET X == last'.ret
              created == memory_relations' \ memory_relations
              targets == { r.related_id : r \in created }
              candidates == Matching(memories, TagsOf(last'.arg))
              Before(a, b) ==
                  \/ memories[a].importance > memories[b].importance
                  \/ /\ memories[a].importance = memories[b].importance
                     /\ memories[a].timestamp > memories[b].timestamp
          IN  /\ memory_relations \subseteq memory_relations'
              /\ \A r \in created :
                     r.memory_id = X /\ r.relation_type = "semantic" /\ r.strength = 1
              /\ X \notin targets
              /\ targets \subseteq candidates
              /\ Cardinality(created) = Cardinality(targets)
              /\ Cardinality(targets) = Min(3, Cardinality(candidates))
              /\ \A c \in candidates \ targets : \A g \in targets : ~Before(c, g)]_vars

\* X was created while four records matched its tags: three relations, the
\* record of highest importance (98) among the targets, one match left out
RelationsToBestMatchesWitness ==
    /\ last.op = "record_conversation"
    /\ LET X == last.ret
           targets == { r.related_id : r \in { q \in memory_relations : q.memory_id = X } }
           candidates == Matching(memories, TagsOf(last.arg)) \ {X}
       IN  /\ Cardinality(targets) = 3
           /\ Cardinality(candidates) = 4
           /\ \E P \in targets : \A c \in candidates :
                  memories[P].importance >= memories[c].importance

Scored == last.op = "_calculate_conversation_importance"
Clamp(x) == IF x < 1 THEN 1 ELSE IF x > 100 THEN 100 ELSE x
HasTerm(m) == \E k \in important_keywords : Contains(MsgChars(m), k)
LengthTerm(arg) ==
    LET total == MsgLen(arg.user_message) + MsgLen(arg.ai_response)
    IN  IF total > 500 THEN 10 ELSE IF total < 50 THEN 0 - 10 ELSE 0

\* C16: the score is 50, plus 10 for a total length above 500 or
\* minus 10 for one below 50, plus an emotion term between 0 and 20, plus 15
\* when a significant term occurs in the conversation (message or response),
\* clamped to [1,100]
ScoreAsClaimed ==
    Scored =>
        \E e \in 0..20 :
            last.ret = Clamp(50 + LengthTerm(last.arg) + e
                               + (IF HasTerm(last.arg.user_message)
                                     \/ HasTerm(last.arg.ai_response)
                                  THEN 15 ELSE 0))

\* C17: in every state reached by the startup load, recordings of
\* conversations and consolidation runs, the cache holds at most cache_size
\* (20) records
CacheWithinSize == Len(short_term_cache) <= 20

Refreshed == last.op \in {"__init__", "consolidate_memories"} /\ last.failed = ""
ByImportance(table) == [id \in DOMAIN table |-> <<table[id].importance, 0>>]
TopImportant(table) ==
    { [i \in 1..Len(rows) |-> CacheEntry(rows[i], table[rows[i]])] :
        rows \in { Limit(o, 20) :
                     o \in OrderByDesc({ id \in DOMAIN table : table[id].importance >= 70 },
                                       ByImportance(table)) } }

\* C18: right after the startup load and right after a consolidation run,
\* the cache is exactly the 20 most important records of the store among
\* those with importance >= 70, the most important first
CacheIsTopImportant == Refreshed => short_term_cache \in TopImportant(memories)

\* C19: a thread that reads the cache while another refreshes it finds the
\* cache as it was before the refresh or as it is after it, never with part
\* of the reloaded records
ReaderSeesWholeRefresh == last.op = "get_stats" => ~last.partial

\* C20: a consolidation run in which one step failed has still executed
\* every other step (expiry deletion, reinforcement, decay, cache reload)
LaterStepsStillRun ==
    (last.op = "consolidate_memories" /\ last.failed # "") =>
        ({"delete", "reinforce", "decay", "reload"} \ {last.failed}) \subseteq last.steps

Creation == {"record_conversation", "record_event"}

\* C21: a row is persisted, and a relation from it, only by the step in
\* which the creation of that record succeeds and returns its id; so a
\* creation that reported failure persists nothing, then or later
CreationAllOrNothing ==
    [][/\ \A id \in DOMAIN memories' \ DOMAIN memories :
             last'.op \in Creation /\ last'.ret = id
       /\ \A r \in memory_relations' \ memory_relations :
             last'.op \in Creation /\ last'.ret = r.memory_id]_vars

\* the records tagged with one of the query's keywords; for the greeting,
\* those whose tags hold the greeting
Tagged(table, query) ==
    IF query.text = Greeting
    THEN { id \in DOMAIN table :
             ~table[id].tags.isnull /\ Contains(table[id].tags.text, Greeting) }
    ELSE Matching(table, _extract_keywords(MsgChars(query)))

\* C22: when the semantic step gives no id (no index, or its query raised),
\* retrieval returns records tagged with a keyword of the query, each once,
\* as many as the limit allows, and none when no record is tagged so
KeywordFallback ==
    [][(last'.op = "retrieve_related_memories" /\ last'.hits = <<>>) =>
          LET res == last'.result
              tagged == Tagged(memories, last'.arg.query)
          IN  /\ SeqToSet(res) \subseteq tagged
              /\ Len(res) = Min(last'.arg.limit, Cardinality(tagged))
              /\ Cardinality(SeqToSet(res)) = Len(res)]_vars

\* the greeting, asked with limit 3 of an index whose query raised, returns
\* the two conversations tagged with it
KeywordFallbackWitness ==
    /\ Retrieved
    /\ last.arg = [query |-> Msg(Greeting, 1), limit |-> 3]
    /\ last.vector_queried
    /\ last.hits = <<>>
    /\ Len(last.result) = 2
    /\ \E i \in 1..2 : memories[last.result[i]].tags = SqlText(Greeting)

\* C23: record creations that run concurrently on different threads all
\* succeed: each returns an id, the ids issued are pairwise different and
\* the created record is in the store
ConcurrentCreationsSucceed ==
    /\ last.op \in Creation => (last.ret # NULL /\ last.ret \in DOMAIN memories)
    /\ \A i, j \in 1..Len(issued) : i # j => issued[i] # issued[j]

\* C24: get_last_interaction_time, called right after a successful
\* record_interaction, returns the time at which that record was created,
\* not None
LastInteractionTimeKnown ==
    [][(last.op = "record_event" /\ last.ret # NULL
           /\ last.arg.event_type \in {"interaction_receive", "interaction_send"}
           /\ last'.op = "get_last_interaction_time") =>
          (last'.ret # NULL /\ last'.ret = memories[last.ret].timestamp)]_vars

\* C25: while the core is active the maintenance thread eventually runs a
\* consolidation, so that the stored record 3, which expires as the clock
\* starts, is eventually deleted
MaintenanceEventuallyConsolidates ==
    <>(last.op = "consolidate_memories" \/ 3 \notin Ids)

Reads == {"retrieve_related_memories", "get_recent_memories", "get_last_interaction_time"}
\* the columns of a row other than its access statistics
Recorded(row) ==
    [memory_type |-> row.memory_type, content |-> row.content,
     metadata |-> row.metadata, tags |-> row.tags, timestamp |-> row.timestamp,
     importance |-> row.importance, expiration_date |-> row.expiration_date]

SemanticStepFailed ==
    /\ last'.op = "retrieve_related_memories"
    /\ last'.vector_queried
    /\ vector_collection.ids # {}
    /\ last'.hits = <<>>

\* C27: after an error in the semantic step the keyword step starts from
\* nothing: the result holds keyword matches only, in the order of the
\* keyword query, and as many as the whole limit allows
SemanticErrorStartsFromZero ==
    [][SemanticStepFailed =>
          LET res == last'.result
              limit == last'.arg.limit
              tagged == Matching(memories, _extract_keywords(MsgChars(last'.arg.query)))
          IN  /\ last'.store_queried = (_extract_keywords(MsgChars(last'.arg.query)) # <<>>)
              /\ SeqToSet(res) \subseteq tagged
              /\ Len(res) = Min(limit, Cardinality(tagged))
              /\ \A i, j \in 1..Len(res) :
                     i < j => memories[res[i]].importance >= memories[res[j]].importance]_vars

\* the query of an index holding three vectors raised, and the retrieval
\* returned three keyword matches, its whole limit
SemanticErrorStartsFromZeroWitness ==
    /\ Retrieved
    /\ last.vector_queried
    /\ Cardinality(vector_collection.ids) >= 3
    /\ last.hits = <<>>
    /\ last.arg.limit = 3
    /\ Len(last.result) = 3

\* C28: the cache never holds two entries of the same record
CacheEntriesDistinct ==
    \A i, j \in 1..Len(short_term_cache) :
        i # j => short_term_cache[i].id # short_term_cache[j].id

\* C29: every cache entry is the entry of a record committed in the store,
\* also after a consolidation run has deleted expired records
CacheEntriesCommitted ==
    \A i \in 1..Len(short_term_cache) : short_term_cache[i].id \in DOMAIN memories

\* C30: whatever the number of runs, consolidation leaves a record created
\* with an importance below 90 at 94 or less, raises no importance that is 90
\* or more, and lowers none below 19; one run changes an importance by +5
\* (reinforced), -2 (decayed), +3 (both, reinforcement first) or not at all
ConsolidationWithinBounds ==
    [][last'.op = "consolidate_memories" =>
          \A id \in DOMAIN memories' :
              LET created == memories'[id].content.importance
                  before == memories[id].importance
                  after == memories'[id].importance
                  raised == memories[id].accessed_count >= 10 /\ before < 90
                  lowered == id \in last'.decayed
              IN  /\ created < 90 => after <= 94
                  /\ after < created => after >= 19
                  /\ before < 90 => after <= 94
                  /\ before >= 90 => after <= before
                  /\ after < before => after >= 19
                  /\ after - before = (IF raised THEN 5 ELSE 0) - (IF lowered THEN 2 ELSE 0)
                  /\ (raised /\ before > 20
                        /\ memories[id].last_accessed # NULL
                        /\ now - memories[id].last_accessed > 30 * 86400)
                       => after = before + 3]_vars

\* a record created at 89 and retrieved ten times, more than thirty days
\* ago, stands at 92 after one run and at 90 after the next
ConsolidationWithinBoundsWitness ==
    /\ last.op = "consolidate_memories"
    /\ 1 \in Ids
    /\ memories[1].content.importance = 89
    /\ memories[1].importance = 90
    /\ 1 \in last.decayed

====
